---- MODULE Spec2Model ----
(***************************************************************************)
(* A model of marmite's site generation (src/src/main.rs): the walk over   *)
(* the content directory, process_file and the field resolvers, the two    *)
(* sorts, and render_templates writing the output tree.                    *)
(*                                                                         *)
(* Text is modelled as a sequence of one-character strings, so that        *)
(* trimming, splitting, quoting and ordering are computed character by     *)
(* character as the code computes them.                                    *)
(***************************************************************************)
EXTENDS Integers, Sequences, FiniteSets, TLC

VARIABLES
    files,      \* the entries the walk of the content directory yields, in order
    pc,         \* where main stands: "start", "walk", "mkdir", "tera", "index",
                \* "posts", "pages", "done", or "aborted"
    idx,        \* the entry the walk stands at
    item,       \* the post or page a loop of render_templates stands at
    posts,      \* SiteData.posts
    pages,      \* SiteData.pages
    renders,    \* the renders that succeeded, in order: file name and text
    output,     \* the output directory: file name -> text
    exit_code,  \* the process's exit status, None while it runs
    error       \* the error that ended the process, "none" otherwise

vars == <<files, pc, idx, item, posts, pages, renders, output, exit_code, error>>

-----------------------------------------------------------------------------
(* Bounds of the model *)

\* number of directory entries the walk yields
MaxFiles == 2
\* number of tags in a `tags` value
MaxTags == 2
\* length of one tag
MaxTagLen == 1
\* length of a markdown body
MaxBodyLen == 3

-----------------------------------------------------------------------------
(* Text *)

\* line feed and the printable ASCII characters (the grave accent left out),
\* in ascending code point order
Chars ==
    <<
       "\n", " ", "!", "\"", "#", "$", "%", "&", "'", "(", ")", "*",
       "+", ",", "-", ".", "/", "0", "1", "2", "3", "4", "5", "6",
       "7", "8", "9", ":", ";", "<", "=", ">", "?", "@", "A", "B",
       "C", "D", "E", "F", "G", "H", "I", "J", "K", "L", "M", "N",
       "O", "P", "Q", "R", "S", "T", "U", "V", "W", "X", "Y", "Z",
       "[", "\\", "]", "^", "_", "a", "b", "c", "d", "e", "f",
       "g", "h", "i", "j", "k", "l", "m", "n", "o", "p", "q", "r",
       "s", "t", "u", "v", "w", "x", "y", "z", "{", "|", "}", "~" >>

\* position of a character in the code point order
Ord(c) == CHOOSE i \in 1..Len(Chars) : Chars[i] = c

Digits == <<"0", "1", "2", "3", "4", "5", "6", "7", "8", "9">>

IsDigit(c) == \E i \in 1..10 : Digits[i] = c

DigitVal(c) == (CHOOSE i \in 1..10 : Digits[i] = c) - 1

\* char::is_whitespace, on the characters of the model
IsWhitespace(c) == c \in {" ", "\n"}

\* str::cmp: lexicographic by code point; -1 Less, 0 Equal, 1 Greater
RECURSIVE StrCmp(_, _)
StrCmp(a, b) ==
    IF a = <<>> /\ b = <<>> THEN 0
    ELSE IF a = <<>> THEN -1
    ELSE IF b = <<>> THEN 1
    ELSE IF Ord(Head(a)) < Ord(Head(b)) THEN -1
    ELSE IF Ord(Head(a)) > Ord(Head(b)) THEN 1
    ELSE StrCmp(Tail(a), Tail(b))

\* str::trim_start_matches(c): drops every leading c
RECURSIVE TrimStartMatches(_, _)
TrimStartMatches(s, c) ==
    IF s # <<>> /\ Head(s) = c THEN TrimStartMatches(Tail(s), c) ELSE s

\* str::trim_end_matches(c)
RECURSIVE TrimEndMatches(_, _)
TrimEndMatches(s, c) ==
    IF s # <<>> /\ s[Len(s)] = c
    THEN TrimEndMatches(SubSeq(s, 1, Len(s) - 1), c)
    ELSE s

\* str::trim_matches(c)
TrimMatches(s, c) == TrimEndMatches(TrimStartMatches(s, c), c)

\* str::trim_start
RECURSIVE TrimStart(_)
TrimStart(s) ==
    IF s # <<>> /\ IsWhitespace(Head(s)) THEN TrimStart(Tail(s)) ELSE s

RECURSIVE TrimEnd(_)
TrimEnd(s) ==
    IF s # <<>> /\ IsWhitespace(s[Len(s)])
    THEN TrimEnd(SubSeq(s, 1, Len(s) - 1))
    ELSE s

\* str::trim
Trim(s) == TrimEnd(TrimStart(s))

\* str::split(c): the segments between occurrences of c; always at least one
RECURSIVE SplitAcc(_, _, _)
SplitAcc(s, c, cur) ==
    IF s = <<>> THEN <<cur>>
    ELSE IF Head(s) = c THEN <<cur>> \o SplitAcc(Tail(s), c, <<>>)
    ELSE SplitAcc(Tail(s), c, Append(cur, Head(s)))

Split(s, c) == SplitAcc(s, c, <<>>)

\* str::lines: the segments ended by a line feed; a final empty one is dropped
Lines(s) ==
    LET segs == Split(s, "\n")
    IN  IF segs[Len(segs)] = <<>> THEN SubSeq(segs, 1, Len(segs) - 1) ELSE segs

-----------------------------------------------------------------------------
(* Option<T>: None is the empty sequence, Some(x) the one-element sequence *)

None == <<>>

Some(x) == <<x>>

IsSome(o) == o # <<>>

-----------------------------------------------------------------------------
(* frontmatter_gen::Value and Frontmatter *)

\* a key the frontmatter does not hold: Frontmatter::get returns None
Absent == [t |-> "Absent", v |-> <<>>]

\* Value::String
Str(s) == [t |-> "String", v |-> s]

\* Value::Number, held as its decimal text
Num(s) == [t |-> "Number", v |-> s]

\* Value::Boolean
Bool(b) == [t |-> "Boolean", v |-> IF b THEN <<"t">> ELSE <<>>]

\* Value::Array
Arr(vs) == [t |-> "Array", v |-> vs]

\* Frontmatter::new(): no keys
EmptyFrontmatter ==
    [title |-> Absent, slug |-> Absent, date |-> Absent, tags |-> Absent,
     show_in_menu |-> Absent]

\* Value::as_str: Some for a String, None otherwise
AsStr(val) == IF val.t = "String" THEN Some(val.v) ELSE None

\* Value::as_bool: Some for a Boolean, None otherwise
AsBool(val) == IF val.t = "Boolean" THEN Some(val.v # <<>>) ELSE None

\* the escaping Value's Display applies inside the quotes of a String
RECURSIVE EscapeStr(_)
EscapeStr(s) ==
    IF s = <<>> THEN <<>>
    ELSE IF Head(s) = "\"" THEN <<"\\", "\"">> \o EscapeStr(Tail(s))
    ELSE IF Head(s) = "\\" THEN <<"\\", "\\">> \o EscapeStr(Tail(s))
    ELSE IF Head(s) = "\n" THEN <<"\\", "n">> \o EscapeStr(Tail(s))
    ELSE <<Head(s)>> \o EscapeStr(Tail(s))

\* Value::to_string on a scalar: a String is written between double quotes
ValueToString(val) ==
    IF val.t = "String" THEN <<"\"">> \o EscapeStr(val.v) \o <<"\"">>
    ELSE IF val.t = "Boolean" THEN
        (IF val.v # <<>> THEN <<"t", "r", "u", "e">> ELSE <<"f", "a", "l", "s", "e">>)
    ELSE val.v

-----------------------------------------------------------------------------
(* chrono: parse_from_str *)

RECURSIVE TakeDigits(_, _)
\* the longest prefix of s made of at most max digits
TakeDigits(s, max) ==
    IF max > 0 /\ s # <<>> /\ IsDigit(Head(s))
    THEN <<Head(s)>> \o TakeDigits(Tail(s), max - 1)
    ELSE <<>>

RECURSIVE ToNumber(_, _)
ToNumber(ds, acc) ==
    IF ds = <<>> THEN acc ELSE ToNumber(Tail(ds), acc * 10 + DigitVal(Head(ds)))

\* a field Parsed does not hold
Unset == 0 - 1

NoFields == [Y |-> Unset, m |-> Unset, d |-> Unset, H |-> Unset, M |-> Unset, S |-> Unset]

ParseFailed == [ok |-> FALSE, f |-> NoFields]

\* the range Parsed::set_* accepts for a field
InFieldRange(spec, n) ==
    CASE spec = "m" -> n \in 1..12
      [] spec = "d" -> n \in 1..31
      [] spec = "H" -> n \in 0..23
      [] spec = "M" -> n \in 0..59
      [] spec = "S" -> n \in 0..60
      [] OTHER -> TRUE

RECURSIVE ParseItems(_, _, _)
\* format::parse over the items of fmt: a %-specifier reads a number (after
\* skipping white space), white space in the format skips white space, any
\* other character must match; input left over at the end is an error
ParseItems(fmt, s, f) ==
    IF fmt = <<>> THEN
        (IF s = <<>> THEN [ok |-> TRUE, f |-> f] ELSE ParseFailed)
    ELSE IF Head(fmt) = "%" THEN
        LET spec   == fmt[2]
            s1     == TrimStart(s)
            signed == spec = "Y" /\ s1 # <<>> /\ Head(s1) = "-"
            s2     == IF signed THEN Tail(s1) ELSE s1
            ds     == TakeDigits(s2, IF signed THEN Len(s2)
                                     ELSE IF spec = "Y" THEN 4 ELSE 2)
            n      == IF signed THEN 0 - ToNumber(ds, 0) ELSE ToNumber(ds, 0)
        IN  IF ds = <<>> \/ ~InFieldRange(spec, n) THEN ParseFailed
            ELSE ParseItems(SubSeq(fmt, 3, Len(fmt)),
                            SubSeq(s2, Len(ds) + 1, Len(s2)),
                            [f EXCEPT ![spec] = n])
    ELSE IF IsWhitespace(Head(fmt)) THEN
        ParseItems(Tail(fmt), TrimStart(s), f)
    ELSE IF s # <<>> /\ Head(s) = Head(fmt) THEN
        ParseItems(Tail(fmt), Tail(s), f)
    ELSE ParseFailed

IsLeapYear(y) == (y % 4 = 0 /\ y % 100 # 0) \/ y % 400 = 0

DaysInMonth(y, m) ==
    IF m = 2 THEN (IF IsLeapYear(y) THEN 29 ELSE 28)
    ELSE IF m \in {4, 6, 9, 11} THEN 30 ELSE 31

\* Parsed::to_naive_date: year, month and day are needed and must name a day
ValidDate(f) ==
    /\ f.Y # Unset /\ f.m # Unset /\ f.d # Unset
    /\ f.d <= DaysInMonth(f.Y, f.m)

\* a NaiveDateTime; second 60 is kept as the last second plus a leap fraction
DateTime(f) ==
    [year |-> f.Y, month |-> f.m, day |-> f.d, hour |-> f.H, minute |-> f.M,
     second |-> IF f.S = 60 THEN 59 ELSE f.S,
     leap |-> IF f.S = 60 THEN 1 ELSE 0]

\* NaiveDateTime::parse_from_str: hour and minute are needed, seconds default to 0
NaiveDateTimeParse(s, fmt) ==
    LET p == ParseItems(fmt, s, NoFields)
    IN  IF p.ok /\ ValidDate(p.f) /\ p.f.H # Unset /\ p.f.M # Unset
        THEN Some(DateTime([p.f EXCEPT !.S = IF p.f.S = Unset THEN 0 ELSE p.f.S]))
        ELSE None

\* NaiveDate::parse_from_str followed by and_hms_opt(0, 0, 0)
NaiveDateParseMidnight(s, fmt) ==
    LET p == ParseItems(fmt, s, NoFields)
    IN  IF p.ok /\ ValidDate(p.f)
        THEN Some(DateTime([p.f EXCEPT !.H = 0, !.M = 0, !.S = 0]))
        ELSE None

\* the three formats get_date tries
FmtSeconds == <<"%", "Y", "-", "%", "m", "-", "%", "d", " ", "%", "H", ":", "%", "M", ":", "%", "S">>

FmtMinutes == <<"%", "Y", "-", "%", "m", "-", "%", "d", " ", "%", "H", ":", "%", "M">>

FmtDay == <<"%", "Y", "-", "%", "m", "-", "%", "d">>

DateTuple(d) == <<d.year, d.month, d.day, d.hour, d.minute, d.second, d.leap>>

RECURSIVE TupleCmp(_, _)
TupleCmp(a, b) ==
    IF a = <<>> THEN 0
    ELSE IF Head(a) < Head(b) THEN -1
    ELSE IF Head(a) > Head(b) THEN 1
    ELSE TupleCmp(Tail(a), Tail(b))

\* Option<NaiveDateTime>::cmp: None is less than any Some
OptDateCmp(a, b) ==
    IF a = None /\ b = None THEN 0
    ELSE IF a = None THEN -1
    ELSE IF b = None THEN 1
    ELSE TupleCmp(DateTuple(a[1]), DateTuple(b[1]))

-----------------------------------------------------------------------------
(* comrak::markdown_to_html, on documents made of ATX headings, paragraphs, *)
(* indented code and blank lines (the block structure of CommonMark; the    *)
(* model's bodies hold no inline markup and no character HTML escapes)      *)

RECURSIVE CountLeading(_, _)
CountLeading(s, c) ==
    IF s # <<>> /\ Head(s) = c THEN 1 + CountLeading(Tail(s), c) ELSE 0

IsBlankLine(l) == TrimStart(l) = <<>>

\* 0 when the line is no ATX heading, else its level 1..6
HeadingLevel(l) ==
    LET t == TrimStart(l)
        n == CountLeading(t, "#")
    IN  IF /\ CountLeading(l, " ") <= 3
           /\ n \in 1..6
           /\ (Len(t) = n \/ t[n + 1] = " ")
        THEN n ELSE 0

\* the text of an ATX heading: without the opening and the closing sequence
HeadingText(l) ==
    LET t    == TrimStart(l)
        rest == Trim(SubSeq(t, CountLeading(t, "#") + 1, Len(t)))
        cut  == TrimEndMatches(rest, "#")
    IN  IF cut = <<>> THEN <<>>
        ELSE IF cut # rest /\ cut[Len(cut)] = " " THEN TrimEnd(cut)
        ELSE rest

IsIndentedCode(l) == CountLeading(l, " ") >= 4 /\ ~IsBlankLine(l)

HeadingHtml(l) ==
    LET n == <<Digits[HeadingLevel(l) + 1]>>
    IN  <<"<", "h">> \o n \o <<">">> \o HeadingText(l) \o <<"<", "/", "h">> \o n \o <<">", "\n">>

CodeHtml(ls) ==
    <<"<", "p", "r", "e", ">", "<", "c", "o", "d", "e", ">">> \o ls \o
    <<"<", "/", "c", "o", "d", "e", ">", "<", "/", "p", "r", "e", ">", "\n">>

\* a paragraph's inner text: lines without leading white space; a line ended
\* by two spaces or more is a hard break; the last line loses trailing space
RECURSIVE ParagraphText(_)
ParagraphText(ls) ==
    IF Len(ls) = 1 THEN Trim(ls[1])
    ELSE LET l == TrimStart(ls[1])
         IN  (IF Len(l) - Len(TrimEnd(l)) >= 2
              THEN TrimEnd(l) \o <<"<", "b", "r", " ", "/", ">", "\n">>
              ELSE TrimEnd(l) \o <<"\n">>) \o ParagraphText(Tail(ls))

ParagraphHtml(ls) ==
    IF ls = <<>> THEN <<>>
    ELSE <<"<", "p", ">">> \o ParagraphText(ls) \o <<"<", "/", "p", ">", "\n">>

RECURSIVE Blocks(_, _, _)
\* ls: the lines left; para: the lines of the open paragraph; code: the open
\* indented code block's text
Blocks(ls, para, code) ==
    IF ls = <<>> THEN
        ParagraphHtml(para) \o (IF code = <<>> THEN <<>> ELSE CodeHtml(code))
    ELSE LET l == Head(ls)
         IN  IF IsBlankLine(l) THEN
                 ParagraphHtml(para) \o Blocks(Tail(ls), <<>>, code)
             ELSE IF HeadingLevel(l) > 0 THEN
                 ParagraphHtml(para) \o (IF code = <<>> THEN <<>> ELSE CodeHtml(code))
                 \o HeadingHtml(l) \o Blocks(Tail(ls), <<>>, <<>>)
             ELSE IF IsIndentedCode(l) /\ para = <<>> THEN
                 Blocks(Tail(ls), <<>>, code \o SubSeq(l, 5, Len(l)) \o <<"\n">>)
             ELSE
                 (IF code = <<>> THEN <<>> ELSE CodeHtml(code))
                 \o Blocks(Tail(ls), Append(para, l), <<>>)

MarkdownToHtml(markdown) == Blocks(Lines(markdown), <<>>, <<>>)

-----------------------------------------------------------------------------
(* The field resolvers of process_file *)

\* get_title with the leading '#' characters kept
GetTitleKeepMarkers(frontmatter, html) ==
    IF frontmatter.title.t = "String" THEN frontmatter.title.v
    ELSE LET ls == Lines(html)
         IN  Trim(IF ls = <<>> THEN <<>> ELSE ls[1])

\* get_title: the metadata title when it is a String, else the first line of
\* the second argument without leading '#' and surrounding white space
GetTitle(frontmatter, html) ==
    IF frontmatter.title.t = "String" THEN frontmatter.title.v
    ELSE LET ls == Lines(html)
         IN  Trim(TrimStartMatches(IF ls = <<>> THEN <<>> ELSE ls[1], "#"))

UnquoteTag(val) == TrimMatches(ValueToString(val), "\"")

RECURSIVE UnquoteAll(_)
UnquoteAll(vs) ==
    IF vs = <<>> THEN <<>> ELSE <<UnquoteTag(Head(vs))>> \o UnquoteAll(Tail(vs))

RECURSIVE TrimAll(_)
TrimAll(ss) == IF ss = <<>> THEN <<>> ELSE <<Trim(Head(ss))>> \o TrimAll(Tail(ss))

\* get_tags with the segments of a string left untrimmed
GetTagsUntrimmed(frontmatter) ==
    IF frontmatter.tags.t = "Array" THEN UnquoteAll(frontmatter.tags.v)
    ELSE IF frontmatter.tags.t = "String" THEN Split(frontmatter.tags.v, ",")
    ELSE <<>>

\* get_tags
GetTags(frontmatter) ==
    IF frontmatter.tags.t = "Array" THEN UnquoteAll(frontmatter.tags.v)
    ELSE IF frontmatter.tags.t = "String" THEN TrimAll(Split(frontmatter.tags.v, ","))
    ELSE <<>>

\* the slug taken from the path alone
GetSlugFromPath(frontmatter, path) ==
    IF path.stem = None THEN [r |-> "Panic", slug |-> <<>>]
    ELSE [r |-> "Return", slug |-> path.stem[1]]

\* get_slug: the metadata slug when it is a String, else the path's file stem;
\* "Panic" when the stem is needed and is not UTF-8 (to_str().unwrap() fails)
GetSlug(frontmatter, path) ==
    IF frontmatter.slug.t = "String" THEN [r |-> "Return", slug |-> frontmatter.slug.v]
    ELSE IF path.stem = None THEN [r |-> "Panic", slug |-> <<>>]
    ELSE [r |-> "Return", slug |-> path.stem[1]]

\* get_date: "Return" with the Option it returns, "Exit" when it prints the
\* diagnostic and calls process::exit(1), "Panic" when as_str().unwrap() fails
GetDate(frontmatter) ==
    LET input == frontmatter.date
    IN  IF input.t = "Absent" THEN [r |-> "Return", date |-> None]
        ELSE IF AsStr(input) = None THEN [r |-> "Panic", date |-> None]
        ELSE IF IsSome(NaiveDateTimeParse(input.v, FmtSeconds))
            THEN [r |-> "Return", date |-> NaiveDateTimeParse(input.v, FmtSeconds)]
        ELSE IF IsSome(NaiveDateTimeParse(input.v, FmtMinutes))
            THEN [r |-> "Return", date |-> NaiveDateTimeParse(input.v, FmtMinutes)]
        ELSE IF IsSome(NaiveDateParseMidnight(input.v, FmtDay))
            THEN [r |-> "Return", date |-> NaiveDateParseMidnight(input.v, FmtDay)]
        ELSE [r |-> "Exit", date |-> None]

\* get_show_in_menu: "Panic" when as_bool().unwrap() fails
GetShowInMenu(frontmatter) ==
    IF frontmatter.show_in_menu.t = "Absent" THEN [r |-> "Return", b |-> FALSE]
    ELSE IF AsBool(frontmatter.show_in_menu) = None THEN [r |-> "Panic", b |-> FALSE]
    ELSE [r |-> "Return", b |-> AsBool(frontmatter.show_in_menu)[1]]

\* parse_front_matter: text that starts with the fence is handed to extract,
\* whose failure panics; other text has no metadata and is all markdown
ParseFrontMatter(content) ==
    IF content.fence
    THEN (IF content.wellformed
          THEN [r |-> "Return", frontmatter |-> content.frontmatter, markdown |-> content.body]
          ELSE [r |-> "Panic", frontmatter |-> EmptyFrontmatter, markdown |-> <<>>])
    ELSE [r |-> "Return", frontmatter |-> EmptyFrontmatter, markdown |-> content.body]

NoContent ==
    [title |-> <<>>, slug |-> <<>>, html |-> <<>>, tags |-> <<>>, date |-> None,
     show_in_menu |-> FALSE]

\* how process_file ends without returning: the process panics (an unwrap or
\* expect failed) or exits with status 1; why names the error
Fails(r, why) == [r |-> r, why |-> why, content |-> NoContent]

\* process_file up to the push: "Return" with the Content built, or how the
\* process ends. The resolvers run in the order title, tags, slug, date,
\* show_in_menu; the last three can end the process
BuildContent(file) ==
    IF ~file.readable THEN Fails("Panic", "read")
    ELSE LET fm == ParseFrontMatter(file.content)
         IN  IF fm.r # "Return" THEN Fails("Panic", "content-parse")
             ELSE LET slug == GetSlug(fm.frontmatter, file.path)
                      date == GetDate(fm.frontmatter)
                      menu == GetShowInMenu(fm.frontmatter)
                  IN  IF slug.r # "Return" THEN Fails("Panic", "slug")
                      ELSE IF date.r = "Exit" THEN Fails("Exit", "date-format")
                      ELSE IF date.r = "Panic" THEN Fails("Panic", "date-type")
                      ELSE IF menu.r # "Return" THEN Fails("Panic", "type-coercion")
                      ELSE [r |-> "Return", why |-> "none",
                            content |->
                               [title |-> GetTitle(fm.frontmatter, fm.markdown),
                                slug |-> slug.slug,
                                html |-> MarkdownToHtml(fm.markdown),
                                tags |-> GetTags(fm.frontmatter),
                                date |-> date.date,
                                show_in_menu |-> menu.b]]

-----------------------------------------------------------------------------
(* The two sorts of main: slice::sort_by is a stable sort *)

\* the comparator with its arguments in the other order: oldest first
PostsCmpAscending(a, b) == OptDateCmp(a.date, b.date)

\* the comparator of the posts sort: |a, b| b.date.cmp(&a.date)
PostsCmp(a, b) == OptDateCmp(b.date, a.date)

\* the comparator with its arguments in the other order: ascending titles
PagesCmpAscending(a, b) == StrCmp(a.title, b.title)

\* the comparator of the pages sort: |a, b| b.title.cmp(&a.title)
PagesCmp(a, b) == StrCmp(b.title, a.title)

Compare(by, a, b) == IF by = "date" THEN PostsCmp(a, b) ELSE PagesCmp(a, b)

RECURSIVE InsertSorted(_, _, _)
\* x put behind every element that does not compare Greater than it
InsertSorted(by, s, x) ==
    IF s = <<>> THEN <<x>>
    ELSE IF Compare(by, Head(s), x) <= 0 THEN <<Head(s)>> \o InsertSorted(by, Tail(s), x)
    ELSE <<x>> \o s

RECURSIVE SortBy(_, _)
SortBy(by, s) ==
    IF s = <<>> THEN <<>>
    ELSE InsertSorted(by, SortBy(by, SubSeq(s, 1, Len(s) - 1)), s[Len(s)])

-----------------------------------------------------------------------------
(* Site and the template contexts *)

DefaultPagination == 10

\* Site with every key absent from marmite.yaml: the serde defaults
DefaultSite ==
    [name |-> "Marmite Site", tagline |-> "A website generated with Marmite",
     url |-> "https://example.com", pagination |-> DefaultPagination,
     list_title |-> "Posts", tags_title |-> "Tags", content_path |-> "content",
     templates_path |-> "templates", static_path |-> "static",
     media_path |-> "content/media", site_path |-> "site"]

\* the context of the list page
ListContext(site, pgs, psts) ==
    [site |-> site, pages |-> pgs, posts |-> psts,
     title |-> <<"B", "l", "o", "g", " ", "P", "o", "s", "t", "s">>]

\* the context of a post's or a page's detail page
ContentContext(site, pgs, c) ==
    [site |-> site, pages |-> pgs, title |-> c.title, content |-> c]

\* Tera::render: the template engine is a black box; its result is held as the
\* template name and the context it was given
Render(template, context) == [template |-> template, context |-> context]

IndexHtml == <<"i", "n", "d", "e", "x", ".", "h", "t", "m", "l">>

\* format!("{}.html", slug)
HtmlName(slug) == slug \o <<".", "h", "t", "m", "l">>

\* a write that empties the output tree first
WriteAlone(out, name, text) == [n \in {name} |-> text]

\* a write that leaves an existing file as it is
WriteKeepFirst(out, name, text) ==
    [n \in DOMAIN out \cup {name} |-> IF n \in DOMAIN out THEN out[n] ELSE text]

\* fs::write: the file is created or replaced
Write(out, name, text) == [n \in DOMAIN out \cup {name} |-> IF n = name THEN text ELSE out[n]]

\* exit status of a Rust process that panicked
PanicCode == 101

-----------------------------------------------------------------------------
(* The directory entries a walk can yield *)

Md == <<"m", "d">>

\* an entry of the walk: kind "file", "dir", or "error" (the walk's Err item);
\* stem is the file stem as text, None when it is not UTF-8
Entry(kind, stem, ext, readable, content) ==
    [kind |-> kind, path |-> [stem |-> stem, ext |-> ext], readable |-> readable,
     content |-> content]

\* text that does not start with the fence
Plain(body) ==
    [fence |-> FALSE, wellformed |-> TRUE, frontmatter |-> EmptyFrontmatter, body |-> body]

\* text that starts with the fence and holds a metadata block extract accepts
WithMeta(frontmatter, body) ==
    [fence |-> TRUE, wellformed |-> TRUE, frontmatter |-> frontmatter, body |-> body]

\* text that starts with the fence and that extract rejects
Malformed ==
    [fence |-> TRUE, wellformed |-> FALSE, frontmatter |-> EmptyFrontmatter, body |-> <<>>]

MdFile(stem, content) == Entry("file", Some(stem), Some(Md), TRUE, content)

Dated(stem, date) ==
    MdFile(stem, WithMeta([EmptyFrontmatter EXCEPT !.date = date], <<"x">>))

Entries ==
    { \* notes.md, no metadata
      MdFile(<<"n", "o", "t", "e", "s">>, Plain(<<"#", " ", "H", "e", "l", "l", "o">>)),
      \* page1.md with slug, title and menu flag
      MdFile(<<"p", "a", "g", "e", "1">>,
             WithMeta([EmptyFrontmatter EXCEPT !.slug = Str(<<"a", "b", "o", "u", "t">>),
                                               !.title = Str(<<"A", "b", "o", "u", "t">>),
                                               !.show_in_menu = Bool(TRUE)],
                      <<"x">>)),
      \* the three date formats; the first two name the same instant
      Dated(<<"a">>, Str(<<"2", "0", "2", "4", "-", "0", "1", "-", "0", "5", " ", "1", "0", ":", "3", "0", ":", "0", "0">>)),
      Dated(<<"b">>, Str(<<"2", "0", "2", "4", "-", "0", "1", "-", "0", "5", " ", "1", "0", ":", "3", "0">>)),
      MdFile(<<"c">>,
             WithMeta([EmptyFrontmatter EXCEPT !.date = Str(<<"2", "0", "2", "4", "-", "0", "1", "-", "0", "5">>),
                                               !.slug = Str(<<"a", "b", "o", "u", "t">>)],
                      <<"x">>)),
      Dated(<<"d">>, Str(<<"2", "0", "2", "4", "-", "2", "-", "1">>)),
      \* dates no format matches, a day no month has, a date that is no string
      Dated(<<"e">>, Str(<<"J", "a", "n", " ", "5", " ", "2", "0", "2", "4">>)),
      Dated(<<"f">>, Str(<<"2", "0", "2", "4", "-", "0", "2", "-", "3", "0">>)),
      Dated(<<"g">>, Num(<<"2", "0", "2", "4">>)),
      \* slugs: empty, "index", not a string (with a title that is no string)
      MdFile(<<"h">>, WithMeta([EmptyFrontmatter EXCEPT !.slug = Str(<<>>)], <<"x">>)),
      MdFile(<<"i">>, WithMeta([EmptyFrontmatter EXCEPT !.slug = Str(<<"i", "n", "d", "e", "x">>)], <<"Z", "e", "d">>)),
      MdFile(<<"j">>,
             WithMeta([EmptyFrontmatter EXCEPT !.slug = Num(<<"1">>), !.title = Num(<<"1">>)],
                      <<"#", "#", " ", "H", "i", "\n", "m", "o", "r", "e">>)),
      \* show_in_menu that is no boolean
      MdFile(<<"k">>, WithMeta([EmptyFrontmatter EXCEPT !.show_in_menu = Str(<<"y", "e", "s">>)], <<"x">>)),
      \* a metadata block extract rejects; a file that cannot be read
      MdFile(<<"l">>, Malformed),
      Entry("file", Some(<<"m">>), Some(Md), FALSE, Plain(<<>>)),
      \* a markdown file whose name is not UTF-8
      Entry("file", None, Some(Md), TRUE, Plain(<<"x">>)),
      \* a file of another extension, a file without extension, a directory,
      \* an entry the walk fails on
      Entry("file", Some(<<"r", "e", "a", "d", "m", "e">>), Some(<<"t", "x", "t">>), TRUE, Plain(<<>>)),
      Entry("file", Some(<<"L", "I", "C", "E", "N", "S", "E">>), None, TRUE, Plain(<<>>)),
      Entry("dir", Some(<<"c", "o", "n", "t", "e", "n", "t">>), None, TRUE, Plain(<<>>)),
      Entry("error", None, None, FALSE, Plain(<<>>)) }

-----------------------------------------------------------------------------
(* The run of main *)

Init ==
    /\ \E n \in 0..MaxFiles : files \in [1..n -> Entries]
    /\ pc = "start"
    /\ idx = 1
    /\ item = 1
    /\ posts = <<>>
    /\ pages = <<>>
    /\ renders = <<>>
    /\ output = <<>>
    /\ exit_code = None
    /\ error = "none"

\* the process ends with the given status; why names the error
Abort(code, why) ==
    /\ pc' = "aborted"
    /\ exit_code' = Some(code)
    /\ error' = why

\* main, lines 13..19: the argument, marmite.yaml read and parsed
LoadConfig ==
    /\ pc = "start"
    /\ \E outcome \in {"ok", "args", "config-read", "config-parse"} :
          IF outcome = "ok"
          THEN pc' = "walk" /\ UNCHANGED <<exit_code, error>>
          ELSE Abort(PanicCode, outcome)
    /\ UNCHANGED <<files, idx, item, posts, pages, renders, output>>

\* the push with the test left out: every record goes to pages
PushAllToPages(content) == pages' = Append(pages, content) /\ posts' = posts

\* process_file's push
Push(content) ==
    IF IsSome(content.date)
    THEN posts' = Append(posts, content) /\ pages' = pages
    ELSE pages' = Append(pages, content) /\ posts' = posts

\* the entries process_file is called on: path.is_file() and extension "md"
IsMd(entry) == entry.kind = "file" /\ entry.path.ext = Some(Md)

\* main, lines 22..28: one iteration of the walk
WalkEntry ==
    /\ pc = "walk"
    /\ idx <= Len(files)
    /\ LET entry == files[idx]
       IN  IF entry.kind = "error" THEN
               Abort(PanicCode, "walk") /\ UNCHANGED <<idx, posts, pages>>
           ELSE IF entry.kind = "file" /\ entry.path.ext = None THEN
               Abort(PanicCode, "extension") /\ UNCHANGED <<idx, posts, pages>>
           ELSE IF ~IsMd(entry) THEN
               idx' = idx + 1 /\ UNCHANGED <<pc, exit_code, error, posts, pages>>
           ELSE LET res == BuildContent(entry)
                IN  IF res.r = "Return" THEN
                        Push(res.content) /\ idx' = idx + 1
                        /\ UNCHANGED <<pc, exit_code, error>>
                    ELSE
                        Abort(IF res.r = "Exit" THEN 1 ELSE PanicCode, res.why)
                        /\ UNCHANGED <<idx, posts, pages>>
    /\ UNCHANGED <<files, item, renders, output>>

\* main, lines 30..33: the walk is over; both collections are sorted
SortCollections ==
    /\ pc = "walk"
    /\ idx > Len(files)
    /\ posts' = SortBy("date", posts)
    /\ pages' = SortBy("title", pages)
    /\ pc' = "mkdir"
    /\ UNCHANGED <<files, idx, item, renders, output, exit_code, error>>

\* main, lines 36..37: create_dir_all(...).expect(...)
CreateOutputDir ==
    /\ pc = "mkdir"
    /\ \E ok \in BOOLEAN :
          IF ok THEN pc' = "tera" /\ UNCHANGED <<exit_code, error>>
          ELSE Abort(PanicCode, "mkdir")
    /\ UNCHANGED <<files, idx, item, posts, pages, renders, output>>

\* main, lines 40..46: Tera::new; an error is printed and the process exits 1
InitTera ==
    /\ pc = "tera"
    /\ \E ok \in BOOLEAN :
          IF ok THEN pc' = "index" /\ UNCHANGED <<exit_code, error>>
          ELSE Abort(1, "template-init")
    /\ UNCHANGED <<files, idx, item, posts, pages, renders, output>>

\* one render-and-write step of render_templates: the render can fail (unwrap
\* panics), then the write can fail (expect panics)
RenderAndWrite(name, template, context) ==
    \E outcome \in {"ok", "render", "write"} :
        IF outcome = "render" THEN
            Abort(PanicCode, "render") /\ UNCHANGED <<renders, output, item>>
        ELSE IF outcome = "write" THEN
            /\ Abort(PanicCode, "write")
            /\ renders' = Append(renders, [file |-> name, text |-> Render(template, context)])
            /\ UNCHANGED <<output, item>>
        ELSE
            /\ renders' = Append(renders, [file |-> name, text |-> Render(template, context)])
            /\ output' = Write(output, name, Render(template, context))
            /\ IF pc = "index" THEN pc' = "posts" /\ item' = 1
                               ELSE pc' = pc /\ item' = item + 1
            /\ UNCHANGED <<exit_code, error>>

\* render_templates, lines 195..201
RenderIndex ==
    /\ pc = "index"
    /\ RenderAndWrite(IndexHtml, "list.html", ListContext(DefaultSite, pages, posts))
    /\ UNCHANGED <<files, idx, posts, pages>>

\* render_templates, lines 204..213: one iteration, or the loop's end
RenderPost ==
    /\ pc = "posts"
    /\ IF item <= Len(posts)
       THEN RenderAndWrite(HtmlName(posts[item].slug), "content.html",
                           ContentContext(DefaultSite, pages, posts[item]))
       ELSE pc' = "pages" /\ item' = 1 /\ UNCHANGED <<renders, output, exit_code, error>>
    /\ UNCHANGED <<files, idx, posts, pages>>

\* render_templates, lines 215..224: one iteration
RenderPage ==
    /\ pc = "pages"
    /\ item <= Len(pages)
    /\ RenderAndWrite(HtmlName(pages[item].slug), "content.html",
                      ContentContext(DefaultSite, pages, pages[item]))
    /\ UNCHANGED <<files, idx, posts, pages>>

\* main, line 52: render_templates returned; the run ends with status 0
Finish ==
    /\ pc = "pages"
    /\ item > Len(pages)
    /\ pc' = "done"
    /\ exit_code' = Some(0)
    /\ UNCHANGED <<files, idx, item, posts, pages, renders, output, error>>

Next ==
    \/ LoadConfig
    \/ WalkEntry
    \/ SortCollections
    \/ CreateOutputDir
    \/ InitTera
    \/ RenderIndex
    \/ RenderPost
    \/ RenderPage
    \/ Finish

Spec == Init /\ [][Next]_vars

-----------------------------------------------------------------------------
(* What the properties below speak of *)

Range(s) == {s[i] : i \in DOMAIN s}

Count(s, x) == Cardinality({i \in DOMAIN s : s[i] = x})

IsPermutation(s, t) ==
    /\ Len(s) = Len(t)
    /\ \A x \in Range(s) \cup Range(t) : Count(s, x) = Count(t, x)

\* the positions of the entries process_file has returned from
Processed == {j \in 1..(idx - 1) : j <= Len(files) /\ IsMd(files[j])}

\* the metadata of an entry's text: none when the text has no fence
MetaOf(entry) ==
    IF entry.content.fence THEN entry.content.frontmatter ELSE EmptyFrontmatter

HasDateKey(entry) == MetaOf(entry).date.t # "Absent"

RECURSIVE Walked(_)
\* the records the walk collects, in discovery order
Walked(fs) ==
    IF fs = <<>> THEN <<>>
    ELSE (IF IsMd(Head(fs)) THEN <<BuildContent(Head(fs)).content>> ELSE <<>>)
         \o Walked(Tail(fs))

IsPost(c) == IsSome(c.date)

IsPage(c) == ~IsSome(c.date)

WalkedPosts == SelectSeq(Walked(files), IsPost)

WalkedPages == SelectSeq(Walked(files), IsPage)

\* render_templates has been entered
Rendering == pc \in {"index", "posts", "pages", "done"}

Items == posts \o pages

\* the renders of a whole run, in the order of render_templates
AllWrites ==
    <<[file |-> <<"i", "n", "d", "e", "x", ".", "h", "t", "m", "l">>,
       text |-> [template |-> "list.html",
                 context |-> [site |-> DefaultSite, pages |-> pages, posts |-> posts,
                              title |-> <<"B", "l", "o", "g", " ", "P", "o", "s", "t", "s">>]]]>>
    \o [i \in 1..Len(Items) |->
          [file |-> Items[i].slug \o <<".", "h", "t", "m", "l">>,
           text |-> [template |-> "content.html",
                     context |-> [site |-> DefaultSite, pages |-> pages,
                                  title |-> Items[i].title, content |-> Items[i]]]]]

\* the last text a sequence of writes leaves under a name
LastText(ws, name) ==
    ws[CHOOSE i \in DOMAIN ws :
          ws[i].file = name /\ \A j \in DOMAIN ws : ws[j].file = name => j <= i].text

\* the output tree a sequence of writes leaves
TreeOf(ws) == [name \in {ws[i].file : i \in DOMAIN ws} |-> LastText(ws, name)]

-----------------------------------------------------------------------------
(* C1: every record of posts has a date, every record of pages has none,   *)
(* and the files process_file has returned from are split between the two: *)
(* those with a date key count the posts, those without count the pages.   *)
Thm_C1_Classification ==
    /\ \A i \in DOMAIN posts : IsSome(posts[i].date)
    /\ \A i \in DOMAIN pages : pages[i].date = None
    /\ Len(posts) = Cardinality({j \in Processed : HasDateKey(files[j])})
    /\ Len(pages) = Cardinality({j \in Processed : ~HasDateKey(files[j])})
    /\ Len(posts) + Len(pages) = Cardinality(Processed)

Wit_C1_PostAndPage == pc = "walk" /\ Len(posts) = 1 /\ Len(pages) = 1

(* C2: once render_templates is entered, posts is a permutation of the     *)
(* posts the walk collected and no post is followed by a later-dated one.  *)
Thm_C2_PostsSorted ==
    Rendering =>
        /\ IsPermutation(posts, WalkedPosts)
        /\ \A i \in 1..(Len(posts) - 1) :
              TupleCmp(DateTuple(posts[i].date[1]), DateTuple(posts[i + 1].date[1])) >= 0

Wit_C2_PostsReordered ==
    /\ pc = "index"
    /\ Len(posts) = 2
    /\ posts # WalkedPosts
    /\ posts[1].date # posts[2].date

(* C3: once render_templates is entered, pages is a permutation of the     *)
(* pages the walk collected, in descending code point order of the titles, *)
(* and every render (list page, post, page) was given that sequence.       *)
Thm_C3_PagesSorted ==
    /\ Rendering =>
          /\ IsPermutation(pages, WalkedPages)
          /\ \A i \in 1..(Len(pages) - 1) : StrCmp(pages[i].title, pages[i + 1].title) >= 0
    /\ \A i \in DOMAIN renders :
          /\ renders[i].text.context.pages = pages
          /\ \A n \in 1..(Len(pages) - 1) :
                StrCmp(renders[i].text.context.pages[n].title,
                       renders[i].text.context.pages[n + 1].title) >= 0

Wit_C3_PagesReordered ==
    /\ pc = "done"
    /\ Len(pages) = 2
    /\ pages # WalkedPages
    /\ Len(renders) = 3

\* the entry the walk stands at, when it stands at one
AtEntry == idx <= Len(files)

\* the process ended inside the walk's call of process_file
AbortedInWalk ==
    pc = "aborted" /\ error \notin {"args", "config-read", "config-parse"}

\* a date value, present, that none of the three formats matches
DateUnmatched(val) ==
    /\ val.t # "Absent"
    /\ val.t = "String" =>
          /\ NaiveDateTimeParse(val.v, FmtSeconds) = None
          /\ NaiveDateTimeParse(val.v, FmtMinutes) = None
          /\ NaiveDateParseMidnight(val.v, FmtDay) = None

\* the entry at idx is a readable markdown file whose metadata parses and
\* whose slug resolves: process_file reaches get_date on it
AtParsedFile ==
    /\ AtEntry
    /\ IsMd(files[idx])
    /\ files[idx].readable
    /\ files[idx].content.fence => files[idx].content.wellformed
    /\ MetaOf(files[idx]).slug.t = "String" \/ files[idx].path.stem # None

IsDatedMd(entry) == IsMd(entry) /\ HasDateKey(entry)

\* the dated files process_file has returned from, in discovery order
DatedProcessed == SelectSeq(SubSeq(files, 1, idx - 1), IsDatedMd)

\* the first of the three formats, in the claim's order, that matches
FirstMatch(text) ==
    IF NaiveDateTimeParse(text, FmtSeconds) # None THEN NaiveDateTimeParse(text, FmtSeconds)
    ELSE IF NaiveDateTimeParse(text, FmtMinutes) # None THEN NaiveDateTimeParse(text, FmtMinutes)
    ELSE NaiveDateParseMidnight(text, FmtDay)

\* during the walk posts holds the dated files' records in discovery order,
\* each with the date its first matching format gives; the date-only form is
\* that day at 00:00:00
DatesResolved ==
    pc = "walk" =>
        /\ Len(posts) = Len(DatedProcessed)
        /\ Len(pages) = Cardinality({j \in Processed : ~HasDateKey(files[j])})
        /\ \A i \in DOMAIN posts :
              /\ posts[i].date # None
              /\ posts[i].date = FirstMatch(MetaOf(DatedProcessed[i]).date.v)
              /\ MetaOf(DatedProcessed[i]).date.v = <<"2", "0", "2", "4", "-", "0", "1", "-", "0", "5">> =>
                    posts[i].date = Some([year |-> 2024, month |-> 1, day |-> 5, hour |-> 0,
                                          minute |-> 0, second |-> 0, leap |-> 0])

\* the run ended at the entry at idx with exit code 1 and the date
\* diagnostic, the entry in neither collection, nothing rendered or written
EndedOnDate ==
    /\ exit_code = Some(1)
    /\ error = "date-format"
    /\ Len(posts) + Len(pages) = Cardinality(Processed)
    /\ renders = <<>>
    /\ DOMAIN output = {}

(* C4: an absent date gives no date; a present one is tried against the    *)
(* three formats in order and the first match is returned, the date-only   *)
(* form at 00:00:00; a file whose date is present and matches none of the  *)
(* three formats ends the run with exit code 1, after the diagnostic, with *)
(* the file in neither collection, no later file processed, nothing        *)
(* rendered or written.                                                    *)
CE_C4_UnmatchedDateExitsOne ==
    /\ DatesResolved
    /\ (AbortedInWalk /\ AtParsedFile /\ DateUnmatched(MetaOf(files[idx]).date)) => EndedOnDate

\* what holds of get_date on dates that are strings: the resolution above,
\* and the end of the run with exit code 1 on a string no format matches
DateStringsHandled ==
    /\ DatesResolved
    /\ (AbortedInWalk /\ AtParsedFile /\ MetaOf(files[idx]).date.t = "String"
          /\ DateUnmatched(MetaOf(files[idx]).date)) => EndedOnDate
    /\ (pc = "aborted" /\ error = "date-format") =>
          (AtParsedFile /\ DateUnmatched(MetaOf(files[idx]).date))

(* C5 as stated: in every state where the run has aborted, no output file  *)
(* has been written.                                                       *)
CE_C5_NoOutputOnAbort == pc = "aborted" => DOMAIN output = {}

(* C5 as amended: every error ends the run with a non-zero status; an     *)
(* error before render_templates leaves no output file; a render or write *)
(* error inside render_templates leaves the files written before it: the  *)
(* first n of index.html, the posts' pages and the pages' pages, in that  *)
(* order.                                                                  *)
Thm_C5_AbortLeavesPrefix ==
    /\ error # "none" <=> pc = "aborted"
    /\ pc = "aborted" => exit_code \in {Some(1), Some(PanicCode)}
    /\ pc = "done" => exit_code = Some(0)
    /\ (pc = "aborted" /\ error \notin {"render", "write"}) =>
          renders = <<>> /\ DOMAIN output = {}
    /\ (pc = "aborted" /\ error \in {"render", "write"}) =>
          LET n == IF error = "write" THEN Len(renders) - 1 ELSE Len(renders)
          IN  /\ n \in 0..Len(AllWrites)
              /\ n < Len(AllWrites)
              /\ output = TreeOf(SubSeq(AllWrites, 1, n))

Wit_C5_PartialOutput ==
    /\ pc = "aborted"
    /\ error = "render"
    /\ Cardinality(DOMAIN output) = 2

(* C6 as stated: after a successful run index.html holds the list view    *)
(* and, for each post and each page, {slug}.html holds the detail          *)
(* rendering of that item.                                                 *)
CE_C6_EveryItemHasItsFile ==
    pc = "done" =>
        /\ <<"i", "n", "d", "e", "x", ".", "h", "t", "m", "l">> \in DOMAIN output
        /\ output[<<"i", "n", "d", "e", "x", ".", "h", "t", "m", "l">>] = AllWrites[1].text
        /\ \A i \in DOMAIN Items :
              /\ (Items[i].slug \o <<".", "h", "t", "m", "l">>) \in DOMAIN output
              /\ output[Items[i].slug \o <<".", "h", "t", "m", "l">>] = AllWrites[i + 1].text

\* no two items share a slug and no item's slug is "index"
SlugsDistinct ==
    /\ \A i, j \in DOMAIN Items : Items[i].slug = Items[j].slug => i = j
    /\ \A i \in DOMAIN Items : Items[i].slug # <<"i", "n", "d", "e", "x">>

(* C6 as amended: after a successful run the output holds exactly         *)
(* index.html and one {slug}.html per distinct slug; each file holds the  *)
(* rendering written last under its name, in the order list view, posts,  *)
(* pages. When the slugs are pairwise distinct and none is "index", that  *)
(* is the list view in index.html and each item's own detail rendering in *)
(* its {slug}.html.                                                        *)
Thm_C6_LastWriteWins ==
    pc = "done" =>
        /\ DOMAIN output = {<<"i", "n", "d", "e", "x", ".", "h", "t", "m", "l">>} \cup {Items[i].slug \o <<".", "h", "t", "m", "l">> : i \in DOMAIN Items}
        /\ \A name \in DOMAIN output : output[name] = LastText(AllWrites, name)
        /\ SlugsDistinct =>
              /\ output[<<"i", "n", "d", "e", "x", ".", "h", "t", "m", "l">>] = AllWrites[1].text
              /\ \A i \in DOMAIN Items :
                    output[Items[i].slug \o <<".", "h", "t", "m", "l">>] = AllWrites[i + 1].text

Wit_C6_SharedSlug ==
    /\ pc = "done"
    /\ Len(posts) = 1 /\ Len(pages) = 1
    /\ posts[1].slug = pages[1].slug

\* the slug the claim gives an entry: the metadata slug when it is a string,
\* else the base name without extension
ClaimedSlug(entry) ==
    IF MetaOf(entry).slug.t = "String" THEN MetaOf(entry).slug.v ELSE entry.path.stem[1]

(* C7: the slugs of the records collected are the metadata slugs (where a  *)
(* string) or else the base names of the files processed, each as often;   *)
(* every detail rendering is written under {slug}.html; after a successful *)
(* run each item's {slug}.html exists: about.html for slug "about",        *)
(* notes.html for notes.md without slug.                                   *)
Thm_C7_SlugNamesOutput ==
    /\ \A sl \in {Items[i].slug : i \in DOMAIN Items} \cup {ClaimedSlug(files[j]) : j \in Processed} :
          Cardinality({i \in DOMAIN Items : Items[i].slug = sl})
            = Cardinality({j \in Processed : ClaimedSlug(files[j]) = sl})
    /\ \A i \in DOMAIN renders :
          renders[i].text.template = "content.html" =>
              renders[i].file = renders[i].text.context.content.slug \o <<".", "h", "t", "m", "l">>
    /\ pc = "done" =>
          /\ \A i \in DOMAIN Items : (Items[i].slug \o <<".", "h", "t", "m", "l">>) \in DOMAIN output
          /\ \A j \in Processed :
                /\ MetaOf(files[j]).slug = Str(<<"a", "b", "o", "u", "t">>) => <<"a", "b", "o", "u", "t", ".", "h", "t", "m", "l">> \in DOMAIN output
                /\ (files[j].path.stem = Some(<<"n", "o", "t", "e", "s">>) /\ MetaOf(files[j]).slug.t = "Absent")
                      => <<"n", "o", "t", "e", "s", ".", "h", "t", "m", "l">> \in DOMAIN output

Wit_C7_AboutAndNotes ==
    /\ pc = "done"
    /\ <<"a", "b", "o", "u", "t", ".", "h", "t", "m", "l">> \in DOMAIN output
    /\ <<"n", "o", "t", "e", "s", ".", "h", "t", "m", "l">> \in DOMAIN output

(* C8: every record in posts or pages has a non-empty slug.                *)
CE_C8_SlugNonEmpty == \A i \in DOMAIN Items : Items[i].slug # <<>>

-----------------------------------------------------------------------------
(* get_tags on the two forms of one list of tags: a walk over a file with  *)
(* the tags as a sequence of scalars, a file with the same tags joined by  *)
(* a separator into one string, and a file without metadata                *)

TagAlphabet == {"a", "b", ",", " ", "\""}

\* the scalars a tags sequence is made of
TagScalars ==
    {Str(t) : t \in UNION {[1..n -> TagAlphabet] : n \in 0..MaxTagLen}} \cup {Num(<<"1">>)}

\* a comma, with or without white space after it
Separators == {<<",">>, <<",", " ">>}

RECURSIVE JoinTags(_, _)
\* the scalars' texts, joined by the separator
JoinTags(vs, sep) ==
    IF vs = <<>> THEN <<>>
    ELSE IF Len(vs) = 1 THEN vs[1].v
    ELSE vs[1].v \o sep \o JoinTags(Tail(vs), sep)

TagsFile(stem, tags) ==
    MdFile(stem, WithMeta([EmptyFrontmatter EXCEPT !.tags = tags], <<"x">>))

\* the state of a run whose configuration is loaded, before the walk
BeforeWalk ==
    /\ pc = "walk"
    /\ idx = 1
    /\ item = 1
    /\ posts = <<>>
    /\ pages = <<>>
    /\ renders = <<>>
    /\ output = <<>>
    /\ exit_code = None
    /\ error = "none"

InitTags ==
    /\ \E n \in 0..MaxTags : \E vs \in [1..n -> TagScalars] : \E sep \in Separators :
          files = << TagsFile(<<"t", "1">>, Arr(vs)),
                     TagsFile(<<"t", "2">>, Str(JoinTags(vs, sep))),
                     MdFile(<<"t", "3">>, Plain(<<"x">>)) >>
    /\ BeforeWalk

SpecTags == InitTags /\ [][WalkEntry]_vars

\* the tags as declared in the first file
DeclaredTags == [i \in DOMAIN files[1].content.frontmatter.tags.v |->
                    files[1].content.frontmatter.tags.v[i].v]

TagsResolved == pc = "walk" /\ idx = 4

(* C9 as stated: the sequence form and the comma-separated form of the    *)
(* same tags resolve to the same sequence, the tags in declaration order; *)
(* no tags key resolves to the empty sequence.                             *)
CE_C9_FormsAgree ==
    TagsResolved =>
        /\ pages[1].tags = pages[2].tags
        /\ pages[1].tags = DeclaredTags
        /\ pages[3].tags = <<>>

\* a tag the two forms treat alike: no comma, no double quote, no backslash,
\* no line feed, no white space at either end
PlainTag(t) ==
    /\ \A i \in DOMAIN t : t[i] \notin {",", "\"", "\\", "\n"}
    /\ Trim(t) = t

(* C9 as amended: for a non-empty list of tags, none of which holds a     *)
(* comma, a double quote or a backslash or begins or ends with white      *)
(* space, the sequence form and the comma-separated form resolve to that  *)
(* same sequence, in declaration order; the empty sequence resolves to no *)
(* tags and the empty string to one empty tag; no tags key resolves to    *)
(* the empty sequence.                                                     *)
Thm_C9_PlainTagsAgree ==
    TagsResolved =>
        /\ (DeclaredTags # <<>> /\ \A i \in DOMAIN DeclaredTags : PlainTag(DeclaredTags[i])) =>
              /\ pages[1].tags = DeclaredTags
              /\ pages[2].tags = DeclaredTags
        /\ DeclaredTags = <<>> => (pages[1].tags = <<>> /\ pages[2].tags = << <<>> >>)
        /\ pages[3].tags = <<>>

Wit_C9_TwoPlainTags ==
    /\ TagsResolved
    /\ files[2].content.frontmatter.tags = Str(<<"a", ",", " ", "b">>)
    /\ pages[1].tags = << <<"a">>, <<"b">> >>
    /\ pages[2].tags = << <<"a">>, <<"b">> >>

-----------------------------------------------------------------------------
(* get_title as process_file calls it: a walk over one file                *)

BodyAlphabet == {"#", " ", "H", "\n"}

Bodies == UNION {[1..n -> BodyAlphabet] : n \in 0..MaxBodyLen} \cup {<<"#", " ", "H", "e", "l", "l", "o">>}

InitTitle ==
    /\ \E body \in Bodies : \E title \in {Absent, Str(<<"T">>), Num(<<"1">>)} :
          files = << MdFile(<<"t", "1">>, IF title = Absent THEN Plain(body)
                                   ELSE WithMeta([EmptyFrontmatter EXCEPT !.title = title], body)) >>
    /\ BeforeWalk

SpecTitle == InitTitle /\ [][WalkEntry]_vars

TitleResolved == pc = "walk" /\ idx = 2

\* the first line of a text, empty when the text has no lines
FirstLine(text) == IF Lines(text) = <<>> THEN <<>> ELSE Lines(text)[1]

\* a line without its leading '#' characters and surrounding white space
WithoutMarkers(line) == Trim(TrimStartMatches(line, "#"))

(* C10 as stated: the title is the metadata title when a string, else the *)
(* first line of the rendered HTML of the body without leading heading    *)
(* markers and surrounding white space.                                    *)
CE_C10_TitleFromHtml ==
    TitleResolved =>
        pages[1].title =
            IF MetaOf(files[1]).title.t = "String" THEN MetaOf(files[1]).title.v
            ELSE WithoutMarkers(FirstLine(pages[1].html))

(* C10 as amended: the title is the metadata title when a string, else    *)
(* the first line of the markdown body, as written in the file, without   *)
(* its leading '#' characters and then without surrounding white space;   *)
(* the empty string when the body has no lines; "Hello" for a body that   *)
(* starts with "# Hello" and no title key.                                 *)
Thm_C10_TitleFromMarkdown ==
    TitleResolved =>
        /\ pages[1].title =
              IF MetaOf(files[1]).title.t = "String" THEN MetaOf(files[1]).title.v
              ELSE WithoutMarkers(FirstLine(files[1].content.body))
        /\ (MetaOf(files[1]).title.t # "String" /\ files[1].content.body = <<>>) =>
              pages[1].title = <<>>
        /\ (MetaOf(files[1]).title.t = "Absent" /\ files[1].content.body = <<"#", " ", "H", "e", "l", "l", "o">>) =>
              pages[1].title = <<"H", "e", "l", "l", "o">>

Wit_C10_HelloHeading ==
    /\ TitleResolved
    /\ MetaOf(files[1]).title.t = "Absent"
    /\ files[1].content.body = <<"#", " ", "H", "e", "l", "l", "o">>
    /\ pages[1].title = <<"H", "e", "l", "l", "o">>
    /\ pages[1].html = <<"<", "h", "1", ">", "H", "e", "l", "l", "o", "<", "/", "h", "1", ">", "\n">>

====
